---- MODULE Spec2Model ----
(***************************************************************************)
(* Model of the requirement store of est_egg: ChromaDBManager              *)
(* (est_egg/chroma_db_manager.py) over a Chroma collection, and the        *)
(* DatabaseManager it constructs (est_egg/database_manager.py).            *)
(*                                                                         *)
(* RequirementContextProvider (est_egg/requirement_context_provider.py)    *)
(* and the query history (the queries table of DatabaseManager) are        *)
(* modelled with it.  Spec: the calls on the store and the provider, one   *)
(* at a time.  HistorySpec: the calls on the query history.                *)
(* ConcurrentSpec: two add_requirement calls whose steps interleave.       *)
(*                                                                         *)
(* Every public method of ChromaDBManager is one action.  The Chroma       *)
(* collection is a map from document id to (document, metadata); each call *)
(* on it either raises (a connection failure, chosen nondeterministically, *)
(* or one of the client's own validation errors) or has the effect the     *)
(* Chroma client (>= 0.4, the first with PersistentClient) gives it.       *)
(***************************************************************************)
EXTENDS Integers, Sequences, FiniteSets, TLC

\* ---------------------------------------------------------------- bounds
NumContents == 2        \* distinct requirement texts
MaxBatch == 2           \* longest contents list given to add_multiple_requirements
NumStamps == 1          \* distinct values str(uuid.uuid4()) takes
MaxResults == 2         \* largest n_results given to query_similar_requirements
MaxQueries == 3         \* save_query calls made on the queries table

Contents == 1..NumContents
Sources == {"a", "b"}
Stamps == 1..NumStamps
None == -1              \* Python's None for the optional metadatas argument
NoKey == -2             \* a key that is not in the current_input dict
EmptyStr == -3          \* the empty string ""
One == 1000             \* 1.0: distances and scores are counted in thousandths
DefaultMaxResults == 5  \* RequirementContextProvider(max_results = 5)

\* ---------------------------------------------------------------- helpers
Range(s) == {s[i] : i \in 1..Len(s)}

Batches == UNION {[1..n -> Contents] : n \in 0..MaxBatch}

\* hashlib.md5(content.encode()).hexdigest(): a digest that depends on the
\* content alone (injective on the texts of the model, as md5 is in practice).
Md5(content) == 100 + ((content * 37) % 101)

DocIds == {Md5(c) : c \in Contents}
UnknownId == 0          \* an id that is the digest of no text
AllIds == DocIds \cup {UnknownId}

\* the methods est_egg.database_manager.DatabaseManager defines
DatabaseManagerMethods ==
    {"initialize_database", "save_query", "get_recent_queries",
     "get_query_by_id", "delete_query"}

Metadata(source, ts) == [source |-> source, timestamp |-> ts]

\* the optional metadata argument: {} for None, else the set of the one dict.
\* A caller working for source "b" passes a dict that already has the two
\* provenance keys and one key of its own; a caller for "a" passes none.
CallerMetadata(source) ==
    IF source = "b" THEN {[source |-> "a", timestamp |-> 0, page |-> 7]} ELSE {}

\* `if metadata is None: metadata = {}`, then metadata["source"] = source and
\* metadata["timestamp"] = str(uuid.uuid4())
PrepareMetadata(metadata, source, ts) ==
    LET given == IF metadata = {} THEN [k \in {} |-> 0]
                 ELSE CHOOSE m \in metadata : TRUE
    IN  [k \in DOMAIN given \cup {"source", "timestamp"} |->
            IF k = "source" THEN source
            ELSE IF k = "timestamp" THEN ts
            ELSE given[k]]

HasDuplicates(ids) == \E i, j \in 1..Len(ids) : i < j /\ ids[i] = ids[j]

\* the client's validation of a write batch (ids, documents, metadatas)
ValidateBatch(ids, docs, metas) ==
    IF Len(docs) # Len(ids) \/ Len(metas) # Len(ids) THEN "ValueError"
    ELSE IF HasDuplicates(ids) THEN "DuplicateIDError"
    ELSE "none"

\* (a pairing that takes the first document of the batch for every id)
RecordAt_first(ids, docs, metas, d) ==
    [document |-> docs[1], metadata |-> metas[1]]

RecordAt(ids, docs, metas, d) ==
    LET i == CHOOSE k \in 1..Len(ids) : ids[k] = d
    IN  [document |-> docs[i], metadata |-> metas[i]]

\* collection.add: ids already in the collection are left as they are.
CollectionAdd(coll, ids, docs, metas, fail) ==
    LET v == ValidateBatch(ids, docs, metas) IN
    IF v # "none" THEN [err |-> v, coll |-> coll]
    ELSE IF fail THEN [err |-> "ConnectionError", coll |-> coll]
    ELSE [err |-> "none",
          coll |-> [d \in DOMAIN coll \cup Range(ids) |->
                       IF d \in DOMAIN coll THEN coll[d]
                       ELSE RecordAt(ids, docs, metas, d)]]

\* collection.update: ids not in the collection are left out.
CollectionUpdate(coll, ids, docs, metas, fail) ==
    LET v == ValidateBatch(ids, docs, metas) IN
    IF v # "none" THEN [err |-> v, coll |-> coll]
    ELSE IF fail THEN [err |-> "ConnectionError", coll |-> coll]
    ELSE [err |-> "none",
          coll |-> [d \in DOMAIN coll |->
                       IF d \in Range(ids) THEN RecordAt(ids, docs, metas, d)
                       ELSE coll[d]]]

\* (an upsert that keeps the records of the batch only)
CollectionUpsert_replace(coll, ids, docs, metas, fail) ==
    LET v == ValidateBatch(ids, docs, metas) IN
    IF v # "none" THEN [err |-> v, coll |-> coll]
    ELSE IF fail THEN [err |-> "ConnectionError", coll |-> coll]
    ELSE [err |-> "none",
          coll |-> [d \in Range(ids) |-> RecordAt(ids, docs, metas, d)]]

\* collection.upsert: insert or overwrite.
CollectionUpsert(coll, ids, docs, metas, fail) ==
    LET v == ValidateBatch(ids, docs, metas) IN
    IF v # "none" THEN [err |-> v, coll |-> coll]
    ELSE IF fail THEN [err |-> "ConnectionError", coll |-> coll]
    ELSE [err |-> "none",
          coll |-> [d \in DOMAIN coll \cup Range(ids) |->
                       IF d \in Range(ids) THEN RecordAt(ids, docs, metas, d)
                       ELSE coll[d]]]

\* (a delete that leaves the record where it is)
CollectionDelete_keep(coll, doc_id, fail) ==
    IF fail THEN [err |-> "ConnectionError", coll |-> coll]
    ELSE [err |-> "none", coll |-> coll]

\* collection.delete(ids=[doc_id]): an id not in the collection is no error.
CollectionDelete(coll, doc_id, fail) ==
    IF fail THEN [err |-> "ConnectionError", coll |-> coll]
    ELSE [err |-> "none", coll |-> [d \in DOMAIN coll \ {doc_id} |-> coll[d]]]

\* ------------------------------------------------- the SQLite mirror
\* self.db_manager.save_requirements(ids, contents, source, metadatas):
\* attribute lookup on the DatabaseManager the store constructed, then
\* INSERT OR REPLACE of one row per id.
SaveRequirements(table, ids, contents, source, metas) ==
    IF "save_requirements" \notin DatabaseManagerMethods
    THEN [err |-> "AttributeError", table |-> table]
    ELSE IF Len(metas) < Len(ids) THEN [err |-> "IndexError", table |-> table]
    ELSE [err |-> "none",
          table |-> [d \in DOMAIN table \cup Range(ids) |->
                       IF d \in Range(ids)
                       THEN LET i == CHOOSE k \in 1..Len(ids) :
                                       /\ ids[k] = d
                                       /\ \A j \in k+1..Len(ids) : ids[j] # d
                            IN  [content |-> contents[i], source |-> source,
                                 metadata |-> metas[i]]
                       ELSE table[d]]]

\* ------------------------------------------------- results of a call
Return(v) == [kind |-> "return", val |-> v, err |-> "none"]
Raise(e) == [kind |-> "raise", val |-> None, err |-> e]

\* one collection call made by a method, and the error it raised
Call(op, err) == [op |-> op, ok |-> (err = "none"), err |-> err]

Conn(fail) == IF fail THEN "ConnectionError" ELSE "none"

\* ------------------------------------------------- ChromaDBManager
\* (queried, retrieved: the query get_info issued and the list it got back)
Outcome(coll, table, result, calls, existing) ==
    [collection |-> coll, requirements |-> table, result |-> result,
     calls |-> calls, existing |-> existing, queried |-> NoKey,
     retrieved |-> <<>>]

\* the entries of s at the positions in P, in ascending position order
\* (the values() of a dict built by a comprehension over range(len(doc_ids)))
Pick(s, P) ==
    LET idx == SelectSeq([i \in 1..Len(s) |-> i], LAMBDA i : i \in P)
    IN  [k \in 1..Len(idx) |-> s[idx[k]]]

\* add_requirement(content, source, metadata): collection.add, then the
\* mirror write, then return doc_id.  failAdd: collection.add raises.
add_requirement(coll, table, content, source, supplied, ts, failAdd) ==
    LET doc_id == Md5(content)
        metadata == PrepareMetadata(supplied, source, ts)
        a == CollectionAdd(coll, <<doc_id>>, <<content>>, <<metadata>>, failAdd)
        s == SaveRequirements(table, <<doc_id>>, <<content>>, source, <<metadata>>)
    IN  IF a.err # "none"
        THEN Outcome(coll, table, Raise(a.err), <<Call("add", a.err)>>, {})
        ELSE IF s.err # "none"
        THEN Outcome(a.coll, table, Raise(s.err), <<Call("add", "none")>>, {})
        ELSE Outcome(a.coll, s.table, Return(doc_id), <<Call("add", "none")>>, {})

\* (a handler that swallows a failure of the upsert as well)
Fallback_swallow(try, doc_ids, contents, metadatas, fail) ==
    LET f == CollectionUpsert(try.coll, doc_ids, contents, metadatas, fail)
    IN  IF try.err = "none"
        THEN [err |-> "none", coll |-> try.coll, calls |-> try.calls]
        ELSE [err |-> "none", coll |-> f.coll,
              calls |-> try.calls \o <<Call("upsert", f.err)>>]

\* the except clause of add_multiple_requirements: when the try block raised,
\* upsert the whole batch as it was passed in; an error of the upsert is the
\* error of the call.
Fallback(try, doc_ids, contents, metadatas, fail) ==
    LET f == CollectionUpsert(try.coll, doc_ids, contents, metadatas, fail)
    IN  IF try.err = "none"
        THEN [err |-> "none", coll |-> try.coll, calls |-> try.calls]
        ELSE [err |-> f.err, coll |-> f.coll,
              calls |-> try.calls \o <<Call("upsert", f.err)>>]

\* the uuid given to the metadata at position i of a batch whose first is ts
StampAt(ts, i) == ((ts + i - 2) % NumStamps) + 1

\* (a test that lets the empty list through)
EmptyBatch_never(contents) == FALSE

\* `not contents`: the list is empty
EmptyBatch(contents) == contents = <<>>

\* add_multiple_requirements(contents, source, metadatas).
\* nmetas: len(metadatas), or None; ts: the first uuid drawn; outage: the
\* ordinals of the collection calls of this invocation that raise (the calls
\* are numbered in the order the method makes them: one get per doc_id, then
\* update, add and upsert as far as they are reached).
add_multiple_requirements(coll, table, contents, source, nmetas, ts, outage) ==
    IF EmptyBatch(contents) THEN Outcome(coll, table, Return(<<>>), <<>>, {})
    ELSE
    LET n == Len(contents)
        doc_ids == [i \in 1..n |-> Md5(contents[i])]
        nm == IF nmetas = None THEN n ELSE nmetas
        metadatas == [i \in 1..nm |->
                        IF nmetas = None THEN Metadata(source, StampAt(ts, i))
                        ELSE PrepareMetadata(CallerMetadata(source), source,
                                             StampAt(ts, i))]
        gets == [i \in 1..n |-> Call("get", Conn(i \in outage))]
        existing_ids == {doc_ids[i] : i \in (1..n) \ outage}
        to_update == {i \in 1..n : doc_ids[i] \in existing_ids}
        to_add == {i \in 1..n : doc_ids[i] \notin existing_ids}
        \* metadatas[i] in the two comprehensions, for every i in range(len(doc_ids))
        indexError == \E i \in to_update \cup to_add : i > nm
        u == IF to_update # {}
             THEN CollectionUpdate(coll, Pick(doc_ids, to_update),
                                   Pick(contents, to_update),
                                   Pick(metadatas, to_update), (n + 1) \in outage)
             ELSE [err |-> "none", coll |-> coll]
        uCalls == IF to_update # {} THEN <<Call("update", u.err)>> ELSE <<>>
        a == IF to_add # {}
             THEN CollectionAdd(u.coll, Pick(doc_ids, to_add),
                                Pick(contents, to_add),
                                Pick(metadatas, to_add),
                                (n + Len(uCalls) + 1) \in outage)
             ELSE [err |-> "none", coll |-> u.coll]
        aCalls == IF to_add # {} THEN <<Call("add", a.err)>> ELSE <<>>
        \* the try block: its error, the collection and the calls it leaves
        try == IF indexError
               THEN [err |-> "IndexError", coll |-> coll, calls |-> gets]
               ELSE IF u.err # "none"
               THEN [err |-> u.err, coll |-> coll, calls |-> gets \o uCalls]
               ELSE [err |-> a.err, coll |-> a.coll,
                     calls |-> gets \o uCalls \o aCalls]
        \* the except block: upsert of the whole batch as it was passed in
        written == Fallback(try, doc_ids, contents, metadatas,
                            (Len(try.calls) + 1) \in outage)
        s == SaveRequirements(table, doc_ids, contents, source, metadatas)
    IN  IF written.err # "none"
        THEN Outcome(written.coll, table, Raise(written.err), written.calls, existing_ids)
        ELSE IF s.err # "none"
        THEN Outcome(written.coll, table, Raise(s.err), written.calls, existing_ids)
        ELSE Outcome(written.coll, s.table, Return(doc_ids), written.calls, existing_ids)

\* (a delete that reports success whatever collection.delete did)
delete_requirement_always_true(coll, table, doc_id, fail) ==
    LET d == CollectionDelete(coll, doc_id, fail)
    IN  Outcome(d.coll, table, Return(TRUE), <<Call("delete", d.err)>>, {})

\* delete_requirement(doc_id): True unless collection.delete raises.
delete_requirement(coll, table, doc_id, fail) ==
    LET d == CollectionDelete(coll, doc_id, fail)
    IN  IF d.err # "none"
        THEN Outcome(coll, table, Return(FALSE), <<Call("delete", d.err)>>, {})
        ELSE Outcome(d.coll, table, Return(TRUE), <<Call("delete", "none")>>, {})

\* count_requirements(): collection.count(), with no handler around it.
count_requirements(coll, table, fail) ==
    IF fail
    THEN Outcome(coll, table, Raise("ConnectionError"), <<Call("count", "ConnectionError")>>, {})
    ELSE Outcome(coll, table, Return(Cardinality(DOMAIN coll)), <<Call("count", "none")>>, {})

\* the distance the index reports between a query text and a document, in
\* thousandths; the collection is created with hnsw:space = cosine, whose
\* distance 1 - cos ranges over [0, 2].  (No value lies halfway between two
\* hundredths, as no float32 distance does in practice.)
Distance(query, content) ==
    IF query = content THEN 0
    ELSE 10 * ((query * 53 + content * 71) % 200)
         + (IF (query + content) % 2 = 0 THEN 3 ELSE 7)

Queries == 0..NumContents       \* 0: a text that is no stored requirement

\* the ids of S in ascending distance from the query (ties: by id)
RECURSIVE Nearest(_, _, _)
Nearest(coll, S, query) ==
    IF S = {} THEN <<>>
    ELSE LET m == CHOOSE d \in S : \A e \in S :
                     \/ Distance(query, coll[d].document) < Distance(query, coll[e].document)
                     \/ /\ Distance(query, coll[d].document) = Distance(query, coll[e].document)
                        /\ d <= e
         IN  <<m>> \o Nearest(coll, S \ {m}, query)

\* collection.query(query_texts=[query], n_results=n_results): the parallel
\* arrays of the nearest n_results documents
CollectionQuery(coll, query, n_results) ==
    LET all == Nearest(coll, DOMAIN coll, query)
        ids == SubSeq(all, 1, IF Len(all) < n_results THEN Len(all) ELSE n_results)
    IN  [ids |-> ids,
         documents |-> [k \in 1..Len(ids) |-> coll[ids[k]].document],
         metadatas |-> [k \in 1..Len(ids) |-> coll[ids[k]].metadata],
         distances |-> [k \in 1..Len(ids) |-> Distance(query, coll[ids[k]].document)]]

\* (a formatting loop that raises when the index returned no record)
query_similar_requirements_empty_raises(coll, table, query, n_results, fail) ==
    IF fail
    THEN Outcome(coll, table, Raise("ConnectionError"), <<Call("query", "ConnectionError")>>, {})
    ELSE IF DOMAIN coll = {}
    THEN Outcome(coll, table, Raise("IndexError"), <<Call("query", "none")>>, {})
    ELSE LET results == CollectionQuery(coll, query, n_results)
         IN  Outcome(coll, table,
                     Return([k \in 1..Len(results.documents) |->
                               [id |-> results.ids[k],
                                content |-> results.documents[k],
                                metadata |-> results.metadatas[k],
                                relevance_score |-> One - results.distances[k]]]),
                     <<Call("query", "none")>>, {})

\* (a formatting loop that puts each result in front of the earlier ones)
query_similar_requirements_reversed(coll, table, query, n_results, fail) ==
    IF fail
    THEN Outcome(coll, table, Raise("ConnectionError"), <<Call("query", "ConnectionError")>>, {})
    ELSE LET results == CollectionQuery(coll, query, n_results)
             n == Len(results.documents)
         IN  Outcome(coll, table,
                     Return([k \in 1..n |->
                               [id |-> results.ids[n + 1 - k],
                                content |-> results.documents[n + 1 - k],
                                metadata |-> results.metadatas[n + 1 - k],
                                relevance_score |-> One - results.distances[n + 1 - k]]]),
                     <<Call("query", "none")>>, {})

\* (a formatting loop that passes the distance on as the score)
query_similar_requirements_raw_distance(coll, table, query, n_results, fail) ==
    IF fail
    THEN Outcome(coll, table, Raise("ConnectionError"), <<Call("query", "ConnectionError")>>, {})
    ELSE LET results == CollectionQuery(coll, query, n_results)
         IN  Outcome(coll, table,
                     Return([k \in 1..Len(results.documents) |->
                               [id |-> results.ids[k],
                                content |-> results.documents[k],
                                metadata |-> results.metadatas[k],
                                relevance_score |-> results.distances[k]]]),
                     <<Call("query", "none")>>, {})

\* query_similar_requirements(query, n_results): collection.query with no
\* handler around it, then the formatting loop over the zipped arrays.
query_similar_requirements(coll, table, query, n_results, fail) ==
    IF fail
    THEN Outcome(coll, table, Raise("ConnectionError"), <<Call("query", "ConnectionError")>>, {})
    ELSE LET results == CollectionQuery(coll, query, n_results)
             formatted_results ==
                 [k \in 1..Len(results.documents) |->
                     [id |-> results.ids[k],
                      content |-> results.documents[k],
                      metadata |-> results.metadatas[k],
                      relevance_score |-> One - results.distances[k]]]
         IN  Outcome(coll, table, Return(formatted_results), <<Call("query", "none")>>, {})

\* ------------------------------------------------- RequirementContextProvider
\* the text of a requirement, and the name of a markdown file
Text(content) == "requirement " \o ToString(content)
Paths == {1}

\* f"Requirements in file {path}": a query text that is no requirement
FileQuery(path) == 10 + path

\* f"{relevance:.2f}": the sign, the integer part and two decimals of the
\* value rounded to the nearest hundredth (a negative value keeps its sign
\* when it rounds to zero)
Format2f(relevance) ==
    LET a == IF relevance < 0 THEN 0 - relevance ELSE relevance
        h == (a + 5) \div 10
    IN  (IF relevance < 0 THEN "-" ELSE "")
        \o ToString(h \div 100) \o "."
        \o (IF h % 100 < 10 THEN "0" ELSE "") \o ToString(h % 100)

\* req["metadata"].get("source", "Unknown source")
SourceOf(metadata) ==
    IF "source" \in DOMAIN metadata THEN metadata.source ELSE "Unknown source"

\* "\n".join(parts)
RECURSIVE Join(_)
Join(parts) ==
    IF parts = <<>> THEN ""
    ELSE IF Len(parts) = 1 THEN parts[1]
    ELSE parts[1] \o "\n" \o Join(Tail(parts))

\* the three context_parts appended for the i-th retrieved requirement
RECURSIVE ContextParts(_, _)
ContextParts(similar_requirements, i) ==
    IF i > Len(similar_requirements) THEN <<>>
    ELSE LET req == similar_requirements[i]
         IN  << "**Requirement " \o ToString(i) \o "** (Source: "
                  \o SourceOf(req.metadata) \o ", Relevance: "
                  \o Format2f(req.relevance_score) \o ")",
                Text(req.content), "" >>
             \o ContextParts(similar_requirements, i + 1)

\* the methods RequirementContextProvider defines
ProviderMethods == {"__init__", "get_info"}

\* (a provider that asks for the default number of results, whatever its
\* max_results)
provider_query_default_limit(coll, table, query, max_results, fail) ==
    query_similar_requirements(coll, table, query, DefaultMaxResults, fail)

\* (a provider that stores the text it is asked about before it searches)
provider_query_indexing(coll, table, query, max_results, fail) ==
    LET a == CollectionAdd(coll, <<Md5(query)>>, <<query>>,
                           <<Metadata("a", 1)>>, fail)
    IN  query_similar_requirements(a.coll, table, query, max_results, fail)

\* self.chroma_db.query_similar_requirements(query=query,
\*                                           n_results=self.max_results)
provider_query(coll, table, query, max_results, fail) ==
    query_similar_requirements(coll, table, query, max_results, fail)

\* (an assembly without the test for an empty list)
Assemble_no_sentinel(similar_requirements) ==
    Join(<<"### Similar Historical Requirements", "">>
         \o ContextParts(similar_requirements, 1))

\* (an assembly that numbers the requirements from 0)
Assemble_from_zero(similar_requirements) ==
    IF similar_requirements = <<>>
    THEN "No similar historical requirements found in the database."
    ELSE Join(<<"### Similar Historical Requirements", "">>
              \o [k \in 1..(3 * Len(similar_requirements)) |->
                    LET i == (k + 2) \div 3
                        req == similar_requirements[i]
                    IN  IF k % 3 = 1
                        THEN "**Requirement " \o ToString(i - 1) \o "** (Source: "
                             \o SourceOf(req.metadata) \o ", Relevance: "
                             \o Format2f(req.relevance_score) \o ")"
                        ELSE IF k % 3 = 2 THEN Text(req.content) ELSE ""])

\* the text get_info makes of the list the store returned: the sentinel for
\* an empty list, else the header and the context_parts, joined
Assemble(similar_requirements) ==
    IF similar_requirements = <<>>
    THEN "No similar historical requirements found in the database."
    ELSE Join(<<"### Similar Historical Requirements", "">>
              \o ContextParts(similar_requirements, 1))

\* (an extraction that looks at markdown_file_path first)
ExtractQuery_path_first(requirement, markdown_file_path) ==
    IF markdown_file_path \notin {NoKey, EmptyStr}
    THEN FileQuery(markdown_file_path)
    ELSE IF requirement \notin {NoKey, EmptyStr} THEN requirement
    ELSE EmptyStr

\* the query get_info takes from current_input: the requirement if the key is
\* there with a non-empty value, else the text made of markdown_file_path on
\* the same condition, else ""
ExtractQuery(requirement, markdown_file_path) ==
    IF requirement \notin {NoKey, EmptyStr} THEN requirement
    ELSE IF markdown_file_path \notin {NoKey, EmptyStr}
    THEN FileQuery(markdown_file_path)
    ELSE EmptyStr

\* get_info(current_input) of a provider built with max_results; q is
\* similar_requirements, or the error the store query raised
get_info(coll, table, requirement, markdown_file_path, max_results, fail) ==
    LET query == ExtractQuery(requirement, markdown_file_path)
    IN  IF query = EmptyStr
        THEN Outcome(coll, table,
                     Return("No historical requirements data available."), <<>>, {})
        ELSE CHOOSE out \in
               { IF q.result.kind = "raise"
                 THEN [Outcome(q.collection, q.requirements, q.result, q.calls, {})
                          EXCEPT !.queried = query]
                 ELSE [Outcome(q.collection, q.requirements,
                               Return(Assemble(q.result.val)), q.calls, {})
                          EXCEPT !.queried = query, !.retrieved = q.result.val]
                 : q \in {provider_query(coll, table, query, max_results, fail)} } :
               TRUE

\* a call of a method by name on the provider: update_context(text), as the
\* dashboard makes it, and get_last_context()
provider_call(coll, table, method) ==
    IF method \notin ProviderMethods
    THEN Outcome(coll, table, Raise("AttributeError"), <<>>, {})
    ELSE Outcome(coll, table, Return(""), <<>>, {})

\* ------------------------------------------------- the query history
\* (est_egg/database_manager.py: the queries table of est_app.db)
InputTexts == {"t1", "t2"}
\* a value handed to json.dumps: what it is and what it holds
InputFiles == {[kind |-> "list", items |-> 0], [kind |-> "list", items |-> 1]}
ResultDatas == {[kind |-> "dict", items |-> 1], [kind |-> "object", items |-> 1]}
QueryIds == 1..MaxQueries

\* json.dumps(v, default=lambda x: x.__dict__): the text of v, an object
\* written as the dict of its attributes
JsonDumps(v) ==
    [json |-> IF v.kind = "object" THEN [kind |-> "dict", items |-> v.items]
              ELSE v]

\* json.loads(text)
JsonLoads(text) == text.json

\* what a method of DatabaseManager leaves: the table, sqlite_sequence and
\* the value it returns
Answer(table, seq, val) == [queries |-> table, sequence |-> seq, val |-> val]

\* (an insert whose id is one more than the largest id in the table, as
\* without AUTOINCREMENT)
save_query_rowid(table, seq, input_text, input_files, result_data) ==
    LET query_id == IF DOMAIN table = {} THEN 1
                    ELSE 1 + CHOOSE m \in DOMAIN table :
                                 \A d \in DOMAIN table : d <= m
    IN  Answer([d \in DOMAIN table \cup {query_id} |->
                   IF d = query_id
                   THEN [id |-> query_id, timestamp |-> seq + 1,
                         input_text |-> input_text,
                         input_files |-> JsonDumps(input_files),
                         result_data |-> JsonDumps(result_data)]
                   ELSE table[d]],
               IF query_id > seq THEN query_id ELSE seq, query_id)

\* save_query(input_text, input_files, ..., result_data, ...): INSERT of one
\* row; id INTEGER PRIMARY KEY AUTOINCREMENT gives one more than the largest
\* id ever given; the timestamp is the time of the call.  (input_text stands
\* for the columns stored as they come, input_files and result_data for
\* those stored as JSON.)
save_query(table, seq, input_text, input_files, result_data) ==
    LET query_id == seq + 1
    IN  Answer([d \in DOMAIN table \cup {query_id} |->
                   IF d = query_id
                   THEN [id |-> query_id, timestamp |-> seq + 1,
                         input_text |-> input_text,
                         input_files |-> JsonDumps(input_files),
                         result_data |-> JsonDumps(result_data)]
                   ELSE table[d]],
               query_id, query_id)

\* get_query_by_id(query_id): the row with its JSON columns parsed (the text
\* json.dumps wrote is never empty, so the tests at 163-168 are true), as a
\* set of one record, or the empty set for None
get_query_by_id(table, seq, query_id) ==
    Answer(table, seq,
           IF query_id \notin DOMAIN table THEN {}
           ELSE {[id |-> table[query_id].id,
                  timestamp |-> table[query_id].timestamp,
                  input_text |-> table[query_id].input_text,
                  input_files |-> JsonLoads(table[query_id].input_files),
                  result_data |-> JsonLoads(table[query_id].result_data)]})

\* the ids of S by descending timestamp
RECURSIVE Latest(_, _)
Latest(table, S) ==
    IF S = {} THEN <<>>
    ELSE LET m == CHOOSE d \in S :
                     \A e \in S : table[d].timestamp >= table[e].timestamp
         IN  <<m>> \o Latest(table, S \ {m})

\* get_recent_queries(limit): the newest rows, without result_data
get_recent_queries(table, seq, limit) ==
    LET ids == Latest(table, DOMAIN table)
        n == IF Len(ids) < limit THEN Len(ids) ELSE limit
    IN  Answer(table, seq,
               [k \in 1..n |->
                   [id |-> ids[k], timestamp |-> table[ids[k]].timestamp,
                    input_text |-> table[ids[k]].input_text,
                    input_files |-> JsonLoads(table[ids[k]].input_files)]])

\* delete_query(query_id): DELETE ... WHERE id = ?; True when a row went
delete_query(table, seq, query_id) ==
    Answer([d \in DOMAIN table \ {query_id} |-> table[d]], seq,
           query_id \in DOMAIN table)

VARIABLES
    collection,     \* the Chroma collection: id -> [document, metadata]
    requirements,   \* the SQLite requirements table: id -> row
    last,           \* the last call made, its arguments and outcome
    queries,        \* the SQLite queries table: id -> row
    sequence,       \* sqlite_sequence of queries: the largest id ever given
    inflight        \* the add_requirement calls in progress, one per caller

vars == <<collection, requirements, last, queries, sequence, inflight>>

Empty == [d \in {} |-> 0]

NoArgs ==
    [contents |-> <<>>, source |-> "", nmetas |-> None, doc_id |-> UnknownId,
     query |-> 0, n_results |-> 0, requirement |-> NoKey,
     markdown_file_path |-> NoKey, query_id |-> 0]

\* what `last` keeps of a call: the method, its arguments, what it returned or
\* raised, the collection calls it made, and the stores as they were before it
Record(op, args, out) ==
    [op |-> op, contents |-> args.contents, source |-> args.source,
     nmetas |-> args.nmetas, doc_id |-> args.doc_id, query |-> args.query,
     n_results |-> args.n_results, requirement |-> args.requirement,
     markdown_file_path |-> args.markdown_file_path,
     query_id |-> args.query_id,
     result |-> out.result, calls |-> out.calls,
     existing |-> out.existing, queried |-> out.queried,
     retrieved |-> out.retrieved, pre |-> collection, preReq |-> requirements]

\* no call is in progress: the caller has taken the outcome of the last one
NoCall ==
    [op |-> "none", contents |-> <<>>, source |-> "", nmetas |-> None,
     doc_id |-> UnknownId, query |-> 0, n_results |-> 0,
     requirement |-> NoKey, markdown_file_path |-> NoKey, query_id |-> 0,
     result |-> Return(None), calls |-> <<>>, existing |-> {},
     queried |-> NoKey, retrieved |-> <<>>, pre |-> Empty, preReq |-> Empty]

\* the callers of add_requirement that may be at work at the same time
Callers == {1, 2}

\* a caller that is in no call
Idle == [pc |-> "idle", content |-> 0, source |-> "", metadata |-> Empty,
         order |-> 0, result |-> Return(None)]

Init ==
    /\ collection = Empty
    /\ requirements = Empty
    /\ last = NoCall
    /\ queries = Empty
    /\ sequence = 0
    /\ inflight = [p \in Callers |-> Idle]

AddRequirement ==
    /\ last = NoCall
    /\ UNCHANGED <<queries, sequence, inflight>>
    /\ \E content \in Contents, source \in Sources, ts \in Stamps, failAdd \in BOOLEAN :
        \E out \in {add_requirement(collection, requirements, content, source,
                                   CallerMetadata(source), ts, failAdd)} :
            /\ collection' = out.collection
            /\ requirements' = out.requirements
            /\ last' = Record("add_requirement",
                              [NoArgs EXCEPT !.contents = <<content>>,
                                             !.source = source,
                                             !.doc_id = Md5(content)], out)

\* the lengths of a supplied metadatas list: one shorter, equal, one longer
MetaLens(contents) ==
    {None} \cup {k \in Len(contents) - 1 .. Len(contents) + 1 : k >= 0}

\* one outage of the index during an invocation: a run of consecutive
\* collection calls that raise, or none
Outages(ncalls) == {{}} \cup {k..j : k \in 1..ncalls, j \in 1..ncalls}

AddMultipleRequirements ==
    /\ last = NoCall
    /\ UNCHANGED <<queries, sequence, inflight>>
    /\ \E contents \in Batches, source \in Sources, ts \in Stamps :
       \E nmetas \in MetaLens(contents) :
       \E outage \in (IF nmetas = None THEN Outages(Len(contents) + 3) ELSE {{}}) :
        \E out \in {add_multiple_requirements(collection, requirements, contents,
                                             source, nmetas, ts, outage)} :
            /\ collection' = out.collection
            /\ requirements' = out.requirements
            /\ last' = Record("add_multiple_requirements",
                              [NoArgs EXCEPT !.contents = contents,
                                             !.source = source,
                                             !.nmetas = nmetas], out)

QuerySimilarRequirements ==
    /\ last = NoCall
    /\ UNCHANGED <<queries, sequence, inflight>>
    /\ \E query \in Queries, n_results \in 1..MaxResults, fail \in BOOLEAN :
        \E out \in {query_similar_requirements(collection, requirements, query,
                                              n_results, fail)} :
            /\ collection' = out.collection
            /\ requirements' = out.requirements
            /\ last' = Record("query_similar_requirements",
                              [NoArgs EXCEPT !.query = query,
                                             !.n_results = n_results], out)

DeleteRequirement ==
    /\ last = NoCall
    /\ UNCHANGED <<queries, sequence, inflight>>
    /\ \E doc_id \in AllIds, fail \in BOOLEAN :
        \E out \in {delete_requirement(collection, requirements, doc_id, fail)} :
            /\ collection' = out.collection
            /\ requirements' = out.requirements
            /\ last' = Record("delete_requirement",
                              [NoArgs EXCEPT !.doc_id = doc_id], out)

CountRequirements ==
    /\ last = NoCall
    /\ UNCHANGED <<queries, sequence, inflight>>
    /\ \E fail \in BOOLEAN :
        \E out \in {count_requirements(collection, requirements, fail)} :
            /\ collection' = out.collection
            /\ requirements' = out.requirements
            /\ last' = Record("count_requirements", NoArgs, out)

\* the values of a key of current_input: absent, "", or a text
Requirements == {NoKey, EmptyStr} \cup Queries
MarkdownPaths == {NoKey, EmptyStr} \cup Paths
MaxResultsChoices == (1..MaxResults) \cup {DefaultMaxResults}

GetInfo ==
    /\ last = NoCall
    /\ UNCHANGED <<queries, sequence, inflight>>
    /\ \E requirement \in Requirements, markdown_file_path \in MarkdownPaths,
          max_results \in MaxResultsChoices, fail \in BOOLEAN :
        \E out \in {get_info(collection, requirements, requirement,
                             markdown_file_path, max_results, fail)} :
            /\ collection' = out.collection
            /\ requirements' = out.requirements
            /\ last' = Record("get_info",
                              [NoArgs EXCEPT !.requirement = requirement,
                                             !.markdown_file_path = markdown_file_path,
                                             !.n_results = max_results], out)

\* analyst.get_context_provider().update_context(requirement_text)
UpdateContext ==
    /\ last = NoCall
    /\ UNCHANGED <<queries, sequence, inflight>>
    /\ \E requirement \in Queries :
        \E out \in {provider_call(collection, requirements, "update_context")} :
            /\ collection' = out.collection
            /\ requirements' = out.requirements
            /\ last' = Record("update_context",
                              [NoArgs EXCEPT !.requirement = requirement], out)

GetLastContext ==
    /\ last = NoCall
    /\ UNCHANGED <<queries, sequence, inflight>>
    /\ LET out == provider_call(collection, requirements, "get_last_context")
       IN  /\ collection' = out.collection
           /\ requirements' = out.requirements
           /\ last' = Record("get_last_context", NoArgs, out)

\* the caller takes what the call returned or raised, and goes on
Resume ==
    /\ last # NoCall
    /\ last' = NoCall
    /\ UNCHANGED <<collection, requirements, queries, sequence, inflight>>

Next ==
    \/ Resume
    \/ AddRequirement
    \/ AddMultipleRequirements
    \/ QuerySimilarRequirements
    \/ DeleteRequirement
    \/ CountRequirements
    \/ GetInfo
    \/ UpdateContext
    \/ GetLastContext

Spec == Init /\ [][Next]_vars

\* ------------------------------------------------- calls on the history
\* the outcome of a call that leaves the store as it is
Answered(val) == Outcome(collection, requirements, Return(val), <<>>, {})

SaveQuery ==
    /\ last = NoCall
    /\ sequence < MaxQueries
    /\ UNCHANGED <<collection, requirements, inflight>>
    /\ \E input_text \in InputTexts, input_files \in InputFiles,
          result_data \in ResultDatas :
        \E out \in {save_query(queries, sequence, input_text, input_files,
                               result_data)} :
            /\ queries' = out.queries
            /\ sequence' = out.sequence
            /\ last' = Record("save_query",
                              [NoArgs EXCEPT !.query_id = out.val],
                              Answered(out.val))

GetRecentQueries ==
    /\ last = NoCall
    /\ UNCHANGED <<collection, requirements, inflight>>
    /\ \E limit \in {1, DefaultMaxResults} :
        \E out \in {get_recent_queries(queries, sequence, limit)} :
            /\ queries' = out.queries
            /\ sequence' = out.sequence
            /\ last' = Record("get_recent_queries",
                              [NoArgs EXCEPT !.n_results = limit],
                              Answered(out.val))

GetQueryById ==
    /\ last = NoCall
    /\ UNCHANGED <<collection, requirements, inflight>>
    /\ \E query_id \in QueryIds :
        \E out \in {get_query_by_id(queries, sequence, query_id)} :
            /\ queries' = out.queries
            /\ sequence' = out.sequence
            /\ last' = Record("get_query_by_id",
                              [NoArgs EXCEPT !.query_id = query_id],
                              Answered(out.val))

DeleteQuery ==
    /\ last = NoCall
    /\ UNCHANGED <<collection, requirements, inflight>>
    /\ \E query_id \in QueryIds :
        \E out \in {delete_query(queries, sequence, query_id)} :
            /\ queries' = out.queries
            /\ sequence' = out.sequence
            /\ last' = Record("delete_query",
                              [NoArgs EXCEPT !.query_id = query_id],
                              Answered(out.val))

HistoryNext ==
    \/ Resume
    \/ SaveQuery
    \/ GetRecentQueries
    \/ GetQueryById
    \/ DeleteQuery

HistorySpec == Init /\ [][HistoryNext]_vars

\* ------------------------------------------------- add_requirement, step by step
\* Two callers run add_requirement at the same time; a call is made of the
\* steps of lines 49-56 (the id and the metadata), 59-63 (collection.add),
\* 66 (the mirror write) and 68 (return), and the steps of the two calls
\* interleave in any order.  order: 2 for the caller whose collection.add was
\* carried out last, 1 for one whose add was carried out before that.
AddRequirementCall(p) ==
    /\ inflight[p].pc = "idle"
    /\ UNCHANGED <<collection, requirements, last, queries, sequence>>
    /\ \E content \in Contents, source \in Sources, ts \in Stamps :
        inflight' = [inflight EXCEPT ![p] =
                        [pc |-> "called", content |-> content, source |-> source,
                         metadata |-> PrepareMetadata(CallerMetadata(source),
                                                      source, ts),
                         order |-> 0, result |-> Return(None)]]

AddRequirementIndexWrite(p) ==
    /\ inflight[p].pc = "called"
    /\ UNCHANGED <<requirements, last, queries, sequence>>
    /\ \E fail \in BOOLEAN :
        \E a \in {CollectionAdd(collection, <<Md5(inflight[p].content)>>,
                                <<inflight[p].content>>,
                                <<inflight[p].metadata>>, fail)} :
            /\ collection' = a.coll
            /\ inflight' =
                 [q \in Callers |->
                     IF q # p
                     THEN [inflight[q] EXCEPT
                              !.order = IF a.err = "none" /\ @ = 2 THEN 1 ELSE @]
                     ELSE IF a.err = "none"
                     THEN [inflight[p] EXCEPT !.pc = "written", !.order = 2]
                     ELSE [inflight[p] EXCEPT !.pc = "done",
                                              !.result = Raise(a.err)]]

AddRequirementMirrorWrite(p) ==
    /\ inflight[p].pc = "written"
    /\ UNCHANGED <<collection, last, queries, sequence>>
    /\ \E w \in {SaveRequirements(requirements, <<Md5(inflight[p].content)>>,
                                  <<inflight[p].content>>, inflight[p].source,
                                  <<inflight[p].metadata>>)} :
        /\ requirements' = w.table
        /\ inflight' = [inflight EXCEPT ![p] =
                           [@ EXCEPT !.pc = "done",
                                     !.result = IF w.err = "none"
                                                THEN Return(Md5(@.content))
                                                ELSE Raise(w.err)]]

\* the caller takes what its call returned or raised
AddRequirementDone(p) ==
    /\ inflight[p].pc = "done"
    /\ UNCHANGED <<collection, requirements, last, queries, sequence>>
    /\ inflight' = [inflight EXCEPT ![p] = Idle]

ConcurrentNext ==
    \/ \E p \in Callers : AddRequirementCall(p)
    \/ \E p \in Callers : AddRequirementIndexWrite(p)
    \/ \E p \in Callers : AddRequirementMirrorWrite(p)
    \/ \E p \in Callers : AddRequirementDone(p)

ConcurrentSpec == Init /\ [][ConcurrentNext]_vars

TypeOK ==
    /\ DOMAIN collection \subseteq AllIds
    /\ \A d \in DOMAIN collection :
          /\ collection[d].document \in Contents
          /\ DOMAIN collection[d].metadata \subseteq {"source", "timestamp", "page"}
          /\ collection[d].metadata.source \in Sources
          /\ collection[d].metadata.timestamp \in Stamps
    /\ last.result.kind \in {"return", "raise"}

\* ------------------------------------------------- properties
\* the collection calls of the last invocation
IsWrite(c) == c.op \in {"add", "update", "upsert"}
AllCallsOk == \A k \in 1..Len(last.calls) : last.calls[k].ok
BatchIds == {Md5(last.contents[i]) : i \in 1..Len(last.contents)}

\* C1: add_requirement(c, source) called twice in a row returns the same id
\* both times and leaves the count as the first call left it: a call made when
\* c is stored (as it is after a first call whose index write succeeded), and
\* whose own index write succeeds, returns the id of c and does not change
\* the count.
C1_IdempotentAdd ==
    (/\ last.op = "add_requirement" /\ last.calls[1].ok
     /\ last.doc_id \in DOMAIN last.pre
     /\ last.pre[last.doc_id].document = last.contents[1])
    => /\ last.result = Return(Md5(last.contents[1]))
       /\ Cardinality(DOMAIN collection) = Cardinality(DOMAIN last.pre)

\* C2: add_requirement(c, "b") made when c is stored with source "a" (as it
\* is after add_requirement(c, "a")) leaves exactly the one record of hash(c),
\* with metadata source "b".
C2_MetadataOverwrite ==
    (/\ last.op = "add_requirement" /\ last.calls[1].ok
     /\ last.source = "b"
     /\ last.doc_id \in DOMAIN last.pre
     /\ last.pre[last.doc_id].metadata.source = "a")
    => /\ last.doc_id \in DOMAIN collection
       /\ collection[last.doc_id].metadata.source = "b"

\* C3: an add_requirement call whose index write succeeded returned the
\* content-derived id; nothing after the write turned it into an error.
C3_AddReturnsId ==
    (last.op = "add_requirement" /\ last.calls[1].ok)
    => /\ last.result.kind = "return"
       /\ last.result.val = Md5(last.contents[1])

\* C4: add_multiple_requirements on a non-empty list, with no metadatas
\* mismatch and no failing collection call, returned one id per content, in
\* order, each the id add_requirement derives from that content.
C4_BatchCorrespondence ==
    (/\ last.op = "add_multiple_requirements" /\ last.contents # <<>>
     /\ last.nmetas \in {None, Len(last.contents)}
     /\ \A k \in 1..Len(last.calls) : last.calls[k].err # "ConnectionError")
    => /\ last.result.kind = "return"
       /\ Len(last.result.val) = Len(last.contents)
       /\ \A i \in 1..Len(last.contents) :
             last.result.val[i] = Md5(last.contents[i])

\* C5: in an add_multiple_requirements call none of whose collection calls
\* raised, an id was classified as present exactly when the collection held
\* it before the call, and afterwards every contents[i] is stored under its id
\* and the count has grown by the number of batch ids not stored before.
C5_Partition ==
    (/\ last.op = "add_multiple_requirements" /\ last.contents # <<>>
     /\ last.nmetas \in {None, Len(last.contents)}
     /\ AllCallsOk)
    => /\ last.existing = BatchIds \cap DOMAIN last.pre
       /\ \A i \in 1..Len(last.contents) :
             /\ Md5(last.contents[i]) \in DOMAIN collection
             /\ collection[Md5(last.contents[i])].document = last.contents[i]
       /\ Cardinality(DOMAIN collection)
             = Cardinality(DOMAIN last.pre)
               + Cardinality(BatchIds \ DOMAIN last.pre)

\* C6: add_multiple_requirements with a metadatas list whose length differs
\* from that of contents raises, and changes neither the collection nor the
\* requirements table.
C6_MismatchRejected ==
    (/\ last.op = "add_multiple_requirements"
     /\ last.nmetas # None /\ last.nmetas # Len(last.contents))
    => /\ last.result.kind = "raise"
       /\ collection = last.pre
       /\ requirements = last.preReq

\* C7: when an existence check of add_multiple_requirements raised (and no
\* write did), the batch was written by exactly one upsert, the call returned
\* the ids of the batch, and every contents[i] is stored under its id.
C7_TransparentFallback ==
    (/\ last.op = "add_multiple_requirements"
     /\ \E k \in 1..Len(last.calls) : last.calls[k].op = "get" /\ ~last.calls[k].ok
     /\ \A k \in 1..Len(last.calls) : IsWrite(last.calls[k]) => last.calls[k].ok)
    => /\ Cardinality({k \in 1..Len(last.calls) : IsWrite(last.calls[k])}) = 1
       /\ \E k \in 1..Len(last.calls) : last.calls[k].op = "upsert"
       /\ last.result.kind = "return"
       /\ last.result.val = [i \in 1..Len(last.contents) |-> Md5(last.contents[i])]
       /\ \A i \in 1..Len(last.contents) :
             /\ Md5(last.contents[i]) \in DOMAIN collection
             /\ collection[Md5(last.contents[i])].document = last.contents[i]

\* C8 as stated: whenever a collection write of add_requirement or
\* add_multiple_requirements raised, the call raised the error of a failed
\* write; no failed update or add was masked by the handler around it.
C8_WriteFailuresPropagate ==
    \A k \in 1..Len(last.calls) :
        (IsWrite(last.calls[k]) /\ ~last.calls[k].ok)
        => /\ last.result.kind = "raise"
           /\ \E j \in k..Len(last.calls) :
                 /\ IsWrite(last.calls[j]) /\ ~last.calls[j].ok
                 /\ last.result.err = last.calls[j].err

\* C8 (amended): a failure of collection.add in add_requirement, and a failure
\* of the fallback collection.upsert in add_multiple_requirements, is the
\* error the call raises; a failure of collection.update or collection.add in
\* add_multiple_requirements is caught by the handler around them, and the
\* next collection call is the upsert of the whole batch.
C8_WriteFailuresAmended ==
    /\ (last.op = "add_requirement" /\ ~last.calls[1].ok)
       => last.result = Raise(last.calls[1].err)
    /\ last.op = "add_multiple_requirements"
       => \A k \in 1..Len(last.calls) :
             /\ (last.calls[k].op = "upsert" /\ ~last.calls[k].ok)
                => last.result = Raise(last.calls[k].err)
             /\ (last.calls[k].op \in {"update", "add"} /\ ~last.calls[k].ok)
                => /\ k + 1 = Len(last.calls)
                   /\ last.calls[k + 1].op = "upsert"

C8_Witness ==
    /\ last.op = "add_multiple_requirements"
    /\ Len(last.calls) >= 2
    /\ last.calls[Len(last.calls) - 1].op = "update"
    /\ last.calls[Len(last.calls) - 1].err = "ConnectionError"
    /\ last.calls[Len(last.calls)].op = "upsert"
    /\ last.calls[Len(last.calls)].err = "ConnectionError"
    /\ last.result = Raise("ConnectionError")

\* C9: delete_requirement never raises: it returns a boolean, and FALSE
\* whenever collection.delete raised.
C9_DeleteNeverRaises ==
    last.op = "delete_requirement"
    => /\ last.result.kind = "return"
       /\ last.result.val \in BOOLEAN
       /\ (~last.calls[1].ok => last.result.val = FALSE)

C9_Witness ==
    /\ last.op = "delete_requirement"
    /\ last.doc_id \in DOMAIN last.pre
    /\ ~last.calls[1].ok
    /\ last.result = Return(FALSE)
    /\ last.doc_id \in DOMAIN collection

\* C10: when collection.query raises, query_similar_requirements returns an
\* empty list; when collection.count raises, count_requirements returns 0.
C10_ReadFailuresSwallowed ==
    /\ (last.op = "query_similar_requirements" /\ ~last.calls[1].ok)
       => last.result = Return(<<>>)
    /\ (last.op = "count_requirements" /\ ~last.calls[1].ok)
       => last.result = Return(0)

\* the last call was get_info, it found a query text, and the store answered
Assembled ==
    /\ last.op = "get_info"
    /\ last.queried # NoKey
    /\ last.result.kind = "return"

\* the entries k.. of the assembled text, written out one after the other
RECURSIVE ExpectedEntries(_, _)
ExpectedEntries(reqs, k) ==
    IF k > Len(reqs) THEN ""
    ELSE "**Requirement " \o ToString(k) \o "** (Source: "
         \o (IF "source" \in DOMAIN reqs[k].metadata
             THEN reqs[k].metadata.source ELSE "Unknown source")
         \o ", Relevance: " \o Format2f(reqs[k].relevance_score) \o ")\n"
         \o Text(reqs[k].content) \o "\n"
         \o (IF k < Len(reqs) THEN "\n" ELSE "")
         \o ExpectedEntries(reqs, k + 1)

\* C11: when the index carries out the delete of a stored id,
\* delete_requirement returns True, the count is exactly one less and the id
\* is gone; a query returns stored ids only, and an id enters the store only
\* by an add of the content it is the hash of.
C11_DeleteExisting ==
    /\ (/\ last.op = "delete_requirement"
        /\ last.doc_id \in DOMAIN last.pre
        /\ last.calls[1].ok)
       => /\ last.result = Return(TRUE)
          /\ Cardinality(DOMAIN collection) = Cardinality(DOMAIN last.pre) - 1
          /\ last.doc_id \notin DOMAIN collection
          /\ \A d \in DOMAIN collection : collection[d] = last.pre[d]
    /\ (last.op = "query_similar_requirements" /\ last.result.kind = "return")
       => \A k \in 1..Len(last.result.val) :
            last.result.val[k].id \in DOMAIN collection
    /\ Assembled
       => \A k \in 1..Len(last.retrieved) :
            last.retrieved[k].id \in DOMAIN collection
    /\ last.op # "none"
       => \A d \in DOMAIN collection \ DOMAIN last.pre :
            /\ last.op \in {"add_requirement", "add_multiple_requirements"}
            /\ d \in BatchIds

C11_Witness ==
    /\ last.op = "delete_requirement"
    /\ Cardinality(DOMAIN last.pre) = 2
    /\ last.doc_id \in DOMAIN last.pre
    /\ last.result = Return(TRUE)
    /\ Cardinality(DOMAIN collection) = 1

\* C12: delete_requirement of an id that is not stored returns False and
\* leaves the count and every record unchanged.
C12_DeleteMissing ==
    (last.op = "delete_requirement" /\ last.doc_id \notin DOMAIN last.pre)
    => /\ last.result = Return(FALSE)
       /\ collection = last.pre

\* C13: on an empty store, when the index answers, query_similar_requirements
\* returns the empty list for every text and every n_results, and does not
\* raise.
C13_EmptyStoreQuery ==
    (/\ last.op = "query_similar_requirements"
     /\ last.pre = Empty
     /\ last.calls[1].ok)
    => last.result = Return(<<>>)

C13_Witness ==
    /\ last.op = "query_similar_requirements"
    /\ last.pre = Empty
    /\ last.n_results = MaxResults
    /\ last.result = Return(<<>>)

\* C14: a query that returns holds at most n_results entries and at most
\* count entries, each the id, content and metadata of a stored record, no id
\* twice, in non-increasing order of relevance_score.
C14_QueryResult ==
    (last.op = "query_similar_requirements" /\ last.result.kind = "return")
    => LET val == last.result.val
       IN  /\ Len(val) <= last.n_results
           /\ Len(val) <= Cardinality(DOMAIN collection)
           /\ \A k \in 1..Len(val) :
                /\ val[k].id \in DOMAIN collection
                /\ val[k].content = collection[val[k].id].document
                /\ val[k].metadata = collection[val[k].id].metadata
           /\ \A j, k \in 1..Len(val) : j # k => val[j].id # val[k].id
           /\ \A k \in 1..(Len(val) - 1) :
                val[k].relevance_score >= val[k + 1].relevance_score

C14_Witness ==
    /\ last.op = "query_similar_requirements"
    /\ last.result.kind = "return"
    /\ Len(last.result.val) = 2
    /\ last.result.val[1].relevance_score > last.result.val[2].relevance_score

\* C15 (as stated): every relevance_score of a query result lies in [0, 1]
\* and equals 1 minus the distance the index reported for that result.
C15_ScoreInUnitInterval ==
    (last.op = "query_similar_requirements" /\ last.result.kind = "return")
    => \A k \in 1..Len(last.result.val) :
         LET req == last.result.val[k]
         IN  /\ req.relevance_score = One - Distance(last.query, req.content)
             /\ 0 <= req.relevance_score
             /\ req.relevance_score <= One

\* C15 (amended): every relevance_score equals 1 minus the distance the index
\* reported; it lies in [-1, 1], and in [0, 1] exactly when that distance is
\* at most 1.
C15_ScoreIsOneMinusDistance ==
    (last.op = "query_similar_requirements" /\ last.result.kind = "return")
    => \A k \in 1..Len(last.result.val) :
         LET req == last.result.val[k]
             dist == Distance(last.query, req.content)
         IN  /\ req.relevance_score = One - dist
             /\ 0 - One <= req.relevance_score
             /\ req.relevance_score <= One
             /\ (0 <= req.relevance_score) <=> (dist <= One)

C15_Witness ==
    /\ last.op = "query_similar_requirements"
    /\ last.result.kind = "return"
    /\ \E k \in 1..Len(last.result.val) : last.result.val[k].relevance_score < 0

\* C16: when get_info has a non-empty query text and the store query returns
\* no result, get_info returns exactly
\* "No similar historical requirements found in the database."
C16_NoResultSentinel ==
    (/\ last.op = "get_info"
     /\ last.queried \notin {NoKey, EmptyStr}
     /\ last.calls = <<Call("query", "none")>>
     /\ CollectionQuery(last.pre, last.queried, last.n_results).ids = <<>>)
    => last.result
         = Return("No similar historical requirements found in the database.")

C16_Witness ==
    /\ last.op = "get_info"
    /\ last.requirement \in Queries
    /\ last.pre = Empty
    /\ last.calls = <<Call("query", "none")>>
    /\ last.result
         = Return("No similar historical requirements found in the database.")

\* C17: when the store query returns n >= 1 results, get_info returns the
\* header "### Similar Historical Requirements", a blank line, and for
\* k = 1..n in result order the line "**Requirement k** (Source: s,
\* Relevance: x)", the content and a blank line, where s is the source of the
\* metadata or "Unknown source" and x the score with two decimals.
C17_ContextFormat ==
    (Assembled /\ last.retrieved # <<>>)
    => last.result.val = "### Similar Historical Requirements\n\n"
                         \o ExpectedEntries(last.retrieved, 1)

C17_Witness ==
    /\ last.op = "get_info"
    /\ Len(last.retrieved) = 2
    /\ last.retrieved[1].relevance_score = 283
    /\ last.retrieved[2].relevance_score = 0 - 423
    /\ last.result = Return("### Similar Historical Requirements\n\n"
           \o "**Requirement 1** (Source: a, Relevance: 0.28)\nrequirement 1\n\n"
           \o "**Requirement 2** (Source: a, Relevance: -0.42)\nrequirement 2\n")

\* C18: the entries of an assembled context are the results of the store
\* query with n_results = max_results, so there are never more than
\* max_results of them.
C18_AtMostMaxResults ==
    Assembled
    => /\ Len(last.retrieved) <= last.n_results
       /\ [k \in 1..Len(last.retrieved) |-> last.retrieved[k].id]
            = CollectionQuery(last.pre, last.queried, last.n_results).ids

C18_Witness ==
    /\ Assembled
    /\ Cardinality(DOMAIN last.pre) = 2
    /\ last.n_results = 1
    /\ Len(last.retrieved) = 1

\* C19: the provider has an accessor for the last assembled context and the
\* update_context the dashboard calls: both calls return.
C19_ContextAccessor ==
    last.op \in {"update_context", "get_last_context"}
    => last.result.kind = "return"

\* C20: get_info leaves the store as it was: no record is added, replaced or
\* removed, whatever it returns or raises.
C20_GetInfoReadOnly ==
    last.op = "get_info"
    => /\ collection = last.pre
       /\ requirements = last.preReq

C20_Witness ==
    /\ Assembled
    /\ last.retrieved # <<>>
    /\ last.queried \in Contents
    /\ Md5(last.queried) \notin DOMAIN last.pre
    /\ collection = last.pre

\* the last call was an add whose arguments are well formed and none of
\* whose collection calls met an outage of the index
IsAdd == last.op \in {"add_requirement", "add_multiple_requirements"}
FaultFreeAdd ==
    /\ IsAdd
    /\ last.nmetas \in {None, Len(last.contents)}
    /\ \A k \in 1..Len(last.calls) : last.calls[k].err # "ConnectionError"

\* C23: the id add_requirement returns, and the ids add_multiple_requirements
\* returns, are the digests of the contents alone: whatever the source, the
\* metadata, the state of the store and the position in the batch, the call
\* returns Md5 of each content, in order.
C23_ContentDerivedId ==
    FaultFreeAdd
    => IF last.op = "add_requirement"
       THEN last.result = Return(Md5(last.contents[1]))
       ELSE last.result
              = Return([i \in 1..Len(last.contents) |-> Md5(last.contents[i])])

\* C25: add_multiple_requirements on a list that holds the same text, not yet
\* stored, at two positions completes without error, returns the same id at
\* both positions, and stores one record for that id.
C25_DuplicatesInBatch ==
    (/\ last.op = "add_multiple_requirements"
     /\ FaultFreeAdd
     /\ \E i, j \in 1..Len(last.contents) :
           /\ i < j
           /\ last.contents[i] = last.contents[j]
           /\ Md5(last.contents[i]) \notin DOMAIN last.pre)
    => /\ last.result.kind = "return"
       /\ Len(last.result.val) = Len(last.contents)
       /\ \A i, j \in 1..Len(last.contents) :
             last.contents[i] = last.contents[j]
             => last.result.val[i] = last.result.val[j]
       /\ BatchIds \subseteq DOMAIN collection
       /\ Cardinality(DOMAIN collection)
             = Cardinality(DOMAIN last.pre \cup BatchIds)

\* C26: in every reachable state every stored record is stored under the
\* digest of its own content, no two records hold the same content, and a
\* call leaves the content of every record it does not remove as it was.
C26_StoreInvariant ==
    /\ \A d \in DOMAIN collection : Md5(collection[d].document) = d
    /\ \A d, e \in DOMAIN collection :
          collection[d].document = collection[e].document => d = e
    /\ last.op # "none"
       => \A d \in DOMAIN collection \cap DOMAIN last.pre :
             collection[d].document = last.pre[d].document

C26_Witness ==
    /\ last.op = "add_multiple_requirements"
    /\ Cardinality(DOMAIN collection) = 2
    /\ \E d \in DOMAIN collection \cap DOMAIN last.pre :
          /\ collection[d].metadata # last.pre[d].metadata
          /\ collection[d].document = last.pre[d].document

\* C27: a call that is not delete_requirement removes no record, so the count
\* does not decrease over it; delete_requirement(id) removes no record but
\* that of id, and changes no other.
C27_OnlyDeleteRemoves ==
    /\ (last.op # "none" /\ last.op # "delete_requirement")
       => /\ DOMAIN last.pre \subseteq DOMAIN collection
          /\ Cardinality(DOMAIN collection) >= Cardinality(DOMAIN last.pre)
    /\ last.op = "delete_requirement"
       => /\ DOMAIN last.pre \ DOMAIN collection \subseteq {last.doc_id}
          /\ \A d \in DOMAIN collection :
                d \in DOMAIN last.pre /\ collection[d] = last.pre[d]

C27_Witness ==
    /\ last.op = "add_multiple_requirements"
    /\ \E k \in 1..Len(last.calls) :
          last.calls[k].op = "upsert" /\ last.calls[k].ok
    /\ \E d \in DOMAIN last.pre : d \notin BatchIds /\ d \in DOMAIN collection

\* C28: whenever no call is in progress, the requirements table and the index
\* hold the same ids, with the same content and metadata under each.
C28_MirrorConsistent ==
    last = NoCall
    => /\ DOMAIN requirements = DOMAIN collection
       /\ \A d \in DOMAIN collection :
             /\ requirements[d].content = collection[d].document
             /\ requirements[d].metadata = collection[d].metadata

\* C29: get_info on an input with no non-empty requirement and no non-empty
\* markdown_file_path returns "No historical requirements data available."
\* and makes no call on the store; with a non-empty requirement the query is
\* the requirement, also when markdown_file_path is there; with only a
\* non-empty markdown_file_path it is the text made of the path.
C29_EmptyInputShortCircuit ==
    last.op = "get_info"
    => LET r == last.requirement \notin {NoKey, EmptyStr}
           m == last.markdown_file_path \notin {NoKey, EmptyStr}
       IN  /\ (~r /\ ~m)
              => /\ last.result
                      = Return("No historical requirements data available.")
                 /\ last.calls = <<>>
                 /\ last.queried = NoKey
           /\ (r \/ m)
              => /\ Len(last.calls) = 1 /\ last.calls[1].op = "query"
                 /\ last.queried
                      = (IF r THEN last.requirement
                         ELSE FileQuery(last.markdown_file_path))

C29_Witness ==
    /\ last.op = "get_info"
    /\ last.requirement = EmptyStr
    /\ last.markdown_file_path = NoKey
    /\ last.pre # Empty
    /\ last.calls = <<>>
    /\ last.result = Return("No historical requirements data available.")

\* C30: add_multiple_requirements on the empty list returns the empty list,
\* makes no call on the index and writes neither the index nor the
\* requirements table, also when a non-empty metadatas list comes with it.
C30_EmptyBatchNoOp ==
    (last.op = "add_multiple_requirements" /\ last.contents = <<>>)
    => /\ last.result = Return(<<>>)
       /\ last.calls = <<>>
       /\ collection = last.pre
       /\ requirements = last.preReq

C30_Witness ==
    /\ last.op = "add_multiple_requirements"
    /\ last.contents = <<>>
    /\ last.nmetas = 1
    /\ last.pre # Empty
    /\ last.result = Return(<<>>)

\* C22: after an add of content not stored before, made with well-formed
\* arguments and no outage of the index, the record of that content is stored;
\* its metadata has the source of the call under "source" and a timestamp of
\* the store under "timestamp", whatever the caller put under those keys,
\* and every other key of the caller with the caller's value.
C22_ProvenanceStoreOwned ==
    FaultFreeAdd
    => \A i \in 1..Len(last.contents) :
         LET d == Md5(last.contents[i])
             supplied == IF last.op = "add_multiple_requirements"
                            /\ last.nmetas = None
                         THEN {} ELSE CallerMetadata(last.source)
         IN  d \notin DOMAIN last.pre
             => /\ d \in DOMAIN collection
                /\ collection[d].metadata.source = last.source
                /\ collection[d].metadata.timestamp \in Stamps
                /\ \A m \in supplied :
                   \A k \in DOMAIN m \ {"source", "timestamp"} :
                      /\ k \in DOMAIN collection[d].metadata
                      /\ collection[d].metadata[k] = m[k]

\* C24 (as stated): a record save_query has stored is returned by
\* get_query_by_id, with the same field values, after every later step of the
\* history manager.
C24_AppendOnly ==
    [][\A id \in DOMAIN queries :
          get_query_by_id(queries', sequence', id).val
            = get_query_by_id(queries, sequence, id).val]_vars

\* C24 (amended): over every step of the history manager a saved record is
\* returned by get_query_by_id as before, unless the step is delete_query of
\* its id, after which the id is in the table no more; an id that went is not
\* given again.
C24_RemovedOnlyByDelete ==
    [][/\ \A id \in DOMAIN queries :
             \/ get_query_by_id(queries', sequence', id).val
                  = get_query_by_id(queries, sequence, id).val
             \/ /\ last'.op = "delete_query"
                /\ last'.query_id = id
                /\ last'.result = Return(TRUE)
                /\ id \notin DOMAIN queries'
       /\ \A id \in DOMAIN queries' \ DOMAIN queries :
             /\ last'.op = "save_query"
             /\ last'.result = Return(id)
             /\ id > sequence]_vars

C24_Witness ==
    /\ last.op = "get_query_by_id"
    /\ last.query_id = 1
    /\ sequence = MaxQueries
    /\ 2 \notin DOMAIN queries
    /\ last.result.val # {}
    /\ \A q \in last.result.val :
          /\ q.id = 1
          /\ q.result_data.kind = "dict"

\* C21: when two add_requirement calls with the same content and different
\* sources have both made their index write and come to their end, whatever
\* the order of their steps, both have returned the id, the record of the
\* content is stored, and its metadata is that of the call whose index write
\* came last.
C21_ConcurrentAddsConverge ==
    \A p, q \in Callers :
        (/\ inflight[p].pc = "done" /\ inflight[q].pc = "done"
         /\ inflight[p].content = inflight[q].content
         /\ inflight[p].source # inflight[q].source
         /\ inflight[p].order = 2 /\ inflight[q].order = 1)
        => LET d == Md5(inflight[p].content)
           IN  /\ inflight[p].result = Return(d)
               /\ inflight[q].result = Return(d)
               /\ d \in DOMAIN collection
               /\ collection[d].document = inflight[p].content
               /\ collection[d].metadata = inflight[p].metadata

====
